---- MODULE Spec2Model ----
(***************************************************************************)
(* Model of src/ner.py: the NER -> ontology graph pipeline.                *)
(*                                                                         *)
(* Strings are TLA+ strings, taken apart character by character with       *)
(* SubSeq.  An RDF term is a record [kind, value, datatype]; str(term) is  *)
(* its value field.  A triple is <<s, p, o>> and an rdflib Graph is a set  *)
(* of triples.  A mention is a function whose domain is the set of fields  *)
(* it exposes: "text" (spaCy ent.text, HF ent['word']), "label" (spaCy     *)
(* ent.label_, HF ent['entity_group']) and "score" (HF ent['score']).      *)
(* A score is a float in [0,1] held in tenths.                             *)
(***************************************************************************)
EXTENDS Integers, Sequences, FiniteSets, TLC

VARIABLES entry, model_choice, entities, pc, i, graph,
          nx_nodes, nx_edges, net_nodes, tmp_exists, fail_at

vars == <<entry, model_choice, entities, pc, i, graph,
          nx_nodes, nx_edges, net_nodes, tmp_exists, fail_at>>

\* Longest mention sequence handed to a builder.
MaxMentions == 2

-----------------------------------------------------------------------------
(* Strings *)

\* Python str.replace(old, new) for a one-character old.
RECURSIVE replace(_, _, _)
replace(s, old, new) ==
    IF Len(s) = 0 THEN ""
    ELSE (IF SubSeq(s, 1, 1) = old THEN new ELSE SubSeq(s, 1, 1))
         \o replace(SubSeq(s, 2, Len(s)), old, new)

\* Python s.split("#")[-1]: what follows the last '#', or s itself.
split_last(s) ==
    LET hashes == {k \in 1..Len(s) : SubSeq(s, k, k) = "#"}
    IN  IF hashes = {} THEN s
        ELSE LET last == CHOOSE k \in hashes : \A h \in hashes : h <= k
             IN  SubSeq(s, last + 1, Len(s))

\* Python `key in label` on strings.
In(key, label) ==
    \E k \in 1..(Len(label) - Len(key) + 1) :
        SubSeq(label, k, k + Len(key) - 1) = key

\* repr of a float held in tenths: 5 -> "0.5", 10 -> "1.0".
float_str(tenths) ==
    LET digit == <<"0", "1", "2", "3", "4", "5", "6", "7", "8", "9">>
    IN  digit[(tenths \div 10) + 1] \o "." \o digit[(tenths % 10) + 1]

-----------------------------------------------------------------------------
(* RDF terms and vocabulary *)

XSD_double == "http://www.w3.org/2001/XMLSchema#double"

URIRef(s) == [kind |-> "URIRef", value |-> s, datatype |-> ""]
\* Literal(str): a plain literal whose lexical form is the string.
Literal(s) == [kind |-> "Literal", value |-> s, datatype |-> ""]
\* Literal(float): lexical form repr(float), datatype xsd:double.
LiteralFloat(tenths) ==
    [kind |-> "Literal", value |-> float_str(tenths), datatype |-> XSD_double]
str(term) == term.value

SHE == "http://example.org/she#"
SHE_(name) == URIRef(SHE \o name)

RDF_type == URIRef("http://www.w3.org/1999/02/22-rdf-syntax-ns#type")
RDFS_subClassOf == URIRef("http://www.w3.org/2000/01/rdf-schema#subClassOf")
OWL_Class == URIRef("http://www.w3.org/2002/07/owl#Class")
OWL_ObjectProperty == URIRef("http://www.w3.org/2002/07/owl#ObjectProperty")
OWL_DatatypeProperty == URIRef("http://www.w3.org/2002/07/owl#DatatypeProperty")

-----------------------------------------------------------------------------
(* map_entity_label *)

map_entity_label_no_PER(label) ==
    CASE label = "PERSON" -> SHE_("Person")
      [] label = "ORG"    -> SHE_("Organization")
      [] label = "GPE"    -> SHE_("Location")
      [] label = "LOC"    -> SHE_("Location")
      [] label = "DATE"   -> SHE_("Date")
      [] label = "MISC"   -> SHE_("MiscEntity")
      [] OTHER            -> SHE_("Entity")

map_entity_label_default_Document(label) ==
    CASE label = "PERSON" -> SHE_("Person")
      [] label = "PER"    -> SHE_("Person")
      [] label = "ORG"    -> SHE_("Organization")
      [] label = "GPE"    -> SHE_("Location")
      [] label = "LOC"    -> SHE_("Location")
      [] label = "DATE"   -> SHE_("Date")
      [] label = "MISC"   -> SHE_("MiscEntity")
      [] OTHER            -> SHE_("Document")

map_entity_label(label) ==
    CASE label = "PERSON" -> SHE_("Person")
      [] label = "PER"    -> SHE_("Person")
      [] label = "ORG"    -> SHE_("Organization")
      [] label = "GPE"    -> SHE_("Location")
      [] label = "LOC"    -> SHE_("Location")
      [] label = "DATE"   -> SHE_("Date")
      [] label = "MISC"   -> SHE_("MiscEntity")
      [] OTHER            -> SHE_("Entity")

-----------------------------------------------------------------------------
(* add_base_ontology *)

add_base_ontology(g) ==
    g \cup
    { <<SHE_("Entity"), RDF_type, OWL_Class>>,
      <<SHE_("Person"), RDF_type, OWL_Class>>,
      <<SHE_("Person"), RDFS_subClassOf, SHE_("Entity")>>,
      <<SHE_("Organization"), RDF_type, OWL_Class>>,
      <<SHE_("Organization"), RDFS_subClassOf, SHE_("Entity")>>,
      <<SHE_("Location"), RDF_type, OWL_Class>>,
      <<SHE_("Location"), RDFS_subClassOf, SHE_("Entity")>>,
      <<SHE_("Date"), RDF_type, OWL_Class>>,
      <<SHE_("Date"), RDFS_subClassOf, SHE_("Entity")>>,
      <<SHE_("MiscEntity"), RDF_type, OWL_Class>>,
      <<SHE_("MiscEntity"), RDFS_subClassOf, SHE_("Entity")>>,
      <<SHE_("Document"), RDF_type, OWL_Class>>,
      <<SHE_("hasEntity"), RDF_type, OWL_ObjectProperty>>,
      <<SHE_("hasText"), RDF_type, OWL_DatatypeProperty>>,
      <<SHE_("hasScore"), RDF_type, OWL_DatatypeProperty>> }

doc_uri == SHE_("Document1")

-----------------------------------------------------------------------------
(* Loop bodies of the two builders.  Each returns the graph as the body    *)
(* leaves it and whether the body raised (a missing attribute or key).     *)

\* The entity URI of a text: SHE[text.replace(" ", "_")].
ent_uri_of(text) == SHE_(replace(text, " ", "_"))

spacy_body_skip_typed(g, ent) ==
    IF "text" \notin DOMAIN ent THEN [graph |-> g, raised |-> TRUE]
    ELSE IF "label" \notin DOMAIN ent THEN [graph |-> g, raised |-> TRUE]
    ELSE LET ent_uri == ent_uri_of(ent.text)
             ent_class == map_entity_label(ent.label)
             typed == \E t \in g : t[1] = ent_uri /\ t[2] = RDF_type
         IN  [graph |-> g \cup (IF typed THEN {}
                                ELSE {<<ent_uri, RDF_type, ent_class>>})
                          \cup {<<doc_uri, SHE_("hasEntity"), ent_uri>>,
                                <<ent_uri, SHE_("hasText"), Literal(ent.text)>>},
              raised |-> FALSE]

spacy_body_fresh_uri(g, ent) ==
    IF "text" \notin DOMAIN ent THEN [graph |-> g, raised |-> TRUE]
    ELSE IF "label" \notin DOMAIN ent THEN [graph |-> g, raised |-> TRUE]
    ELSE LET base == ent_uri_of(ent.text)
             seen == \E t \in g : t[1] = base
             ent_uri == IF seen THEN URIRef(base.value \o "_2") ELSE base
             ent_class == map_entity_label(ent.label)
         IN  [graph |-> g \cup {<<ent_uri, RDF_type, ent_class>>,
                                <<doc_uri, SHE_("hasEntity"), ent_uri>>,
                                <<ent_uri, SHE_("hasText"), Literal(ent.text)>>},
              raised |-> FALSE]

spacy_body(g, ent) ==
    IF "text" \notin DOMAIN ent THEN [graph |-> g, raised |-> TRUE]
    ELSE IF "label" \notin DOMAIN ent THEN [graph |-> g, raised |-> TRUE]
    ELSE LET ent_uri == ent_uri_of(ent.text)
             ent_class == map_entity_label(ent.label)
         IN  [graph |-> g \cup {<<ent_uri, RDF_type, ent_class>>,
                                <<doc_uri, SHE_("hasEntity"), ent_uri>>,
                                <<ent_uri, SHE_("hasText"), Literal(ent.text)>>},
              raised |-> FALSE]

hf_body_default_label(g, ent) ==
    IF "text" \notin DOMAIN ent THEN [graph |-> g, raised |-> TRUE]
    ELSE LET ent_uri == ent_uri_of(ent.text)
             ent_class == IF "label" \in DOMAIN ent
                          THEN map_entity_label(ent.label) ELSE SHE_("Entity")
             three == g \cup {<<ent_uri, RDF_type, ent_class>>,
                              <<doc_uri, SHE_("hasEntity"), ent_uri>>,
                              <<ent_uri, SHE_("hasText"), Literal(ent.text)>>}
         IN  IF "score" \notin DOMAIN ent
             THEN [graph |-> three, raised |-> TRUE]
             ELSE [graph |-> three \cup
                      {<<ent_uri, SHE_("hasScore"), LiteralFloat(ent.score)>>},
                   raised |-> FALSE]

hf_body(g, ent) ==
    IF "text" \notin DOMAIN ent THEN [graph |-> g, raised |-> TRUE]
    ELSE IF "label" \notin DOMAIN ent THEN [graph |-> g, raised |-> TRUE]
    ELSE LET ent_uri == ent_uri_of(ent.text)
             ent_class == map_entity_label(ent.label)
             three == g \cup {<<ent_uri, RDF_type, ent_class>>,
                              <<doc_uri, SHE_("hasEntity"), ent_uri>>,
                              <<ent_uri, SHE_("hasText"), Literal(ent.text)>>}
         IN  IF "score" \notin DOMAIN ent
             THEN [graph |-> three, raised |-> TRUE]
             ELSE [graph |-> three \cup
                      {<<ent_uri, SHE_("hasScore"), LiteralFloat(ent.score)>>},
                   raised |-> FALSE]

-----------------------------------------------------------------------------
(* Colouring of one node in show_graph *)

color_map == << <<"Person", "blue">>, <<"Organization", "orange">>,
                <<"Location", "green">>, <<"Date", "yellow">>,
                <<"MiscEntity", "gray">>, <<"Entity", "gray">>,
                <<"Document", "red">> >>

RECURSIVE color_scan(_, _, _)
color_scan(label, k, color) ==
    IF k > Len(color_map) THEN color
    ELSE IF In(color_map[k][1], label) THEN color_map[k][2]
    ELSE color_scan(label, k + 1, color)

RECURSIVE color_scan_no_break(_, _, _)
color_scan_no_break(label, k, color) ==
    IF k > Len(color_map) THEN color
    ELSE color_scan_no_break(label, k + 1,
             IF In(color_map[k][1], label) THEN color_map[k][2] ELSE color)

colorOf_no_break(label) == color_scan_no_break(label, 1, "lightgray")

colorOf(label) == color_scan(label, 1, "lightgray")

-----------------------------------------------------------------------------
(* rdf_to_networkx *)

\* The (source, target) node pairs of the triples of g.
edge_pairs(g) == {<<str(t[1]), str(t[3])>> : t \in g}

\* The edge labels the triples of g give to one node pair.
edge_labels(g, pr) ==
    {split_last(str(t[2])) : t \in {u \in g : <<str(u[1]), str(u[3])>> = pr}}

\* nx.DiGraph keeps one edge per (source, target); add_edge on an existing
\* pair overwrites its label, so the label kept is that of whichever triple
\* the iteration over the graph (unordered) visits last.
rdf_to_networkx_edges(g) ==
    LET clash == {pr \in edge_pairs(g) : Cardinality(edge_labels(g, pr)) > 1}
        all   == UNION {edge_labels(g, pr) : pr \in clash}
    IN  { [pr \in edge_pairs(g) |->
              IF pr \in clash THEN last[pr]
              ELSE CHOOSE l \in edge_labels(g, pr) : TRUE] :
          last \in {f \in [clash -> all] :
                       \A pr \in clash : f[pr] \in edge_labels(g, pr)} }

rdf_to_networkx_nodes(g) == {str(t[1]) : t \in g} \cup {str(t[3]) : t \in g}

-----------------------------------------------------------------------------
(* Inputs *)

Mention(t, l, s) == [text |-> t, label |-> l, score |-> s]

Labels == {"PERSON", "PER", "ORG", "GPE", "LOC", "DATE", "MISC",
           "", "person", "XYZ"}

Texts == {"A B", "A_B", "A\tB", "Person", "Document1", "Document",
          "Person Document", "0.5", "C#Date"}

\* One text under every label.
MentionsByLabel ==
    {Mention("A B", l, 5) : l \in Labels} \cup {Mention("A_B", "PER", 5)}

\* Every text under one label, and a few variations of label and score.
MentionsByText ==
    {Mention(t, "XYZ", 5) : t \in Texts}
    \cup {Mention("A B", "XYZ", 9), Mention("Document", "PERSON", 5)}

\* Every subset of the fields of one mention, and one other mention.
MentionsByShape ==
    {[f \in D |-> Mention("A B", "ORG", 5)[f]] :
        D \in SUBSET {"text", "label", "score"}}
    \cup {Mention("Hawaii", "GPE", 9)}

SeqsUpTo(S, n) == UNION {[1..k -> S] : k \in 0..n}

\* A spaCy span exposes a text and a label and never a score.
as_span(ent) == [f \in DOMAIN ent \ {"score"} |-> ent[f]]

-----------------------------------------------------------------------------
(* State machine *)

\* entry = "ui": the button handler runs the pipeline.
\* entry = "call": a builder is called directly, then the graph is shown.
InitWith(U) ==
    /\ entry \in {"ui", "call"}
    /\ model_choice \in {"spaCy", "Hugging Face Transformers"}
    /\ \E seq \in SeqsUpTo(U, MaxMentions) :
          entities = IF model_choice = "spaCy"
                     THEN [k \in DOMAIN seq |-> as_span(seq[k])]
                     ELSE seq
    /\ pc = IF entry = "ui" THEN "idle" ELSE "build"
    /\ i = 0
    /\ graph = {}
    /\ nx_nodes = {}
    /\ nx_edges = <<>>
    /\ net_nodes = <<>>
    /\ tmp_exists = FALSE
    /\ fail_at = "none"

Init == InitWith(MentionsByText)
InitLabels == InitWith(MentionsByLabel)
InitShapes == InitWith(MentionsByShape)

\* The fields the result loop of the handler reads from each mention.
shown_fields ==
    IF model_choice = "spaCy" THEN {"text", "label"}
    ELSE {"text", "label", "score"}

\* Button pressed: the model runs and the result loop writes every mention.
Click ==
    /\ pc = "idle"
    /\ IF \A k \in 1..Len(entities) : shown_fields \subseteq DOMAIN entities[k]
       THEN pc' = "build" /\ fail_at' = fail_at
       ELSE pc' = "failed" /\ fail_at' = "results"
    /\ UNCHANGED <<entry, model_choice, entities, i, graph,
                   nx_nodes, nx_edges, net_nodes, tmp_exists>>

\* build_graph_*: the statements before the loop.
BuildBegin ==
    /\ pc = "build"
    /\ graph' = add_base_ontology({}) \cup {<<doc_uri, RDF_type, SHE_("Document")>>}
    /\ i' = 1
    /\ pc' = "loop"
    /\ UNCHANGED <<entry, model_choice, entities,
                   nx_nodes, nx_edges, net_nodes, tmp_exists, fail_at>>

body(g, ent) ==
    IF model_choice = "spaCy" THEN spacy_body(g, ent) ELSE hf_body(g, ent)

\* build_graph_*: one iteration of the loop.
BuildLoop ==
    /\ pc = "loop"
    /\ i <= Len(entities)
    /\ LET r == body(graph, entities[i])
       IN  /\ graph' = r.graph
           /\ IF r.raised
              THEN pc' = "failed" /\ fail_at' = "build" /\ i' = i
              ELSE pc' = "loop" /\ fail_at' = fail_at /\ i' = i + 1
    /\ UNCHANGED <<entry, model_choice, entities,
                   nx_nodes, nx_edges, net_nodes, tmp_exists>>

\* build_graph_*: return g.
BuildReturn ==
    /\ pc = "loop"
    /\ i > Len(entities)
    /\ pc' = "built"
    /\ UNCHANGED <<entry, model_choice, entities, i, graph,
                   nx_nodes, nx_edges, net_nodes, tmp_exists, fail_at>>

\* show_graph: nx_graph = rdf_to_networkx(g).
Project ==
    /\ pc = "built"
    /\ nx_nodes' = rdf_to_networkx_nodes(graph)
    /\ nx_edges' \in rdf_to_networkx_edges(graph)
    /\ pc' = "projected"
    /\ UNCHANGED <<entry, model_choice, entities, i, graph,
                   net_nodes, tmp_exists, fail_at>>

\* show_graph: the pyvis network, a coloured node per nx node.
Color ==
    /\ pc = "projected"
    /\ net_nodes' = [node \in nx_nodes |->
                        [label |-> split_last(node),
                         color |-> colorOf(split_last(node))]]
    /\ pc' = "colored"
    /\ UNCHANGED <<entry, model_choice, entities, i, graph,
                   nx_nodes, nx_edges, tmp_exists, fail_at>>

\* show_graph: the temporary file is created (delete=False) and the network
\* saved into it; either step may raise.
SaveTmp ==
    /\ pc = "colored"
    /\ \E outcome \in {"ok", "create_raises", "save_raises"} :
          /\ tmp_exists' = (outcome # "create_raises")
          /\ IF outcome = "ok"
             THEN pc' = "saved" /\ fail_at' = fail_at
             ELSE pc' = "failed" /\ fail_at' = "show_graph"
    /\ UNCHANGED <<entry, model_choice, entities, i, graph,
                   nx_nodes, nx_edges, net_nodes>>

\* Handler: the file is read back and embedded in the page; either may raise.
Render ==
    /\ pc = "saved"
    /\ entry = "ui"
    /\ \E outcome \in {"ok", "raises"} :
          IF outcome = "ok"
          THEN pc' = "rendered" /\ fail_at' = fail_at
          ELSE pc' = "failed" /\ fail_at' = "render"
    /\ UNCHANGED <<entry, model_choice, entities, i, graph,
                   nx_nodes, nx_edges, net_nodes, tmp_exists>>

\* Handler: os.remove(graph_html).
Remove ==
    /\ pc = "rendered"
    /\ tmp_exists' = FALSE
    /\ pc' = "done"
    /\ UNCHANGED <<entry, model_choice, entities, i, graph,
                   nx_nodes, nx_edges, net_nodes, fail_at>>

Next ==
    \/ Click
    \/ BuildBegin
    \/ BuildLoop
    \/ BuildReturn
    \/ Project
    \/ Color
    \/ SaveTmp
    \/ Render
    \/ Remove

Spec == Init /\ [][Next]_vars
SpecLabels == InitLabels /\ [][Next]_vars
SpecShapes == InitShapes /\ [][Next]_vars

-----------------------------------------------------------------------------
(* Vocabulary of the properties *)

\* Mentions whose loop body has completed.
Processed == IF pc \in {"idle", "build"} THEN {} ELSE 1..(i - 1)

\* The builder has returned its graph.
Returned ==
    \/ pc \in {"built", "projected", "colored", "saved", "rendered", "done"}
    \/ pc = "failed" /\ fail_at \in {"show_graph", "render"}

\* The presentation graph has been built.
Projected == Returned /\ pc # "built"

\* The nodes of the presentation graph have been coloured.
Colored == Projected /\ pc # "projected"

\* The builder raised on mention i.
BuildFailed == pc = "failed" /\ fail_at = "build"

HasTextAndLabel(ent) == {"text", "label"} \subseteq DOMAIN ent

ScoreOf(ent) == IF "score" \in DOMAIN ent THEN ent.score ELSE -1

\* The class the documentation gives a label.
DocumentedClass(l) ==
    IF l \in {"PERSON", "PER"} THEN SHE_("Person")
    ELSE IF l = "ORG" THEN SHE_("Organization")
    ELSE IF l \in {"GPE", "LOC"} THEN SHE_("Location")
    ELSE IF l = "DATE" THEN SHE_("Date")
    ELSE IF l = "MISC" THEN SHE_("MiscEntity")
    ELSE SHE_("Entity")

EntityClasses ==
    {SHE_(c) : c \in {"Entity", "Person", "Organization", "Location",
                      "Date", "MiscEntity"}}

\* The rdf:type triples of a node that assert an entity class.
EntityTypeTriples(node) ==
    {t \in graph : t[1] = node /\ t[2] = RDF_type /\ t[3] \in EntityClasses}

\* The triples every builder adds for a mention with text and label.
CoreTriples(ent) ==
    {<<ent_uri_of(ent.text), RDF_type, map_entity_label(ent.label)>>,
     <<doc_uri, SHE_("hasEntity"), ent_uri_of(ent.text)>>,
     <<ent_uri_of(ent.text), SHE_("hasText"), Literal(ent.text)>>}

\* A text with every whitespace character replaced by an underscore.
NormalizeWhitespace(text) ==
    replace(replace(replace(text, " ", "_"), "\t", "_"), "\n", "_")

\* The priority list of the colouring contract.
PriorityList == << <<"Person", "blue">>, <<"Organization", "orange">>,
                   <<"Location", "green">>, <<"Date", "yellow">>,
                   <<"MiscEntity", "gray">>, <<"Entity", "gray">>,
                   <<"Document", "red">> >>

-----------------------------------------------------------------------------
(* Properties *)

\* C1: the presentation graph has as many edges as its input has triples,
\* also when two triples share subject and object string and differ in
\* predicate.
C1_EdgePerTriple ==
    Projected => Cardinality(DOMAIN nx_edges) = Cardinality(graph)

\* C2: two mentions with the same normalized text and different labels leave
\* two distinct rdf:type triples on their node, whatever the two labels.
C2_TwoTypesAnyLabels ==
    Returned =>
      \A j, k \in 1..Len(entities) :
         (/\ ent_uri_of(entities[j].text) = ent_uri_of(entities[k].text)
          /\ entities[j].label # entities[k].label)
         => Cardinality(EntityTypeTriples(ent_uri_of(entities[j].text))) >= 2

\* C2 amended: two mentions with the same normalized text whose labels are
\* documented to map to different classes leave the two type triples of
\* those classes on their node.
C2_TwoTypesDifferentClasses ==
    Returned =>
      \A j, k \in 1..Len(entities) :
         (/\ ent_uri_of(entities[j].text) = ent_uri_of(entities[k].text)
          /\ DocumentedClass(entities[j].label) # DocumentedClass(entities[k].label))
         => LET node == ent_uri_of(entities[j].text)
            IN  /\ <<node, RDF_type, DocumentedClass(entities[j].label)>> \in graph
                /\ <<node, RDF_type, DocumentedClass(entities[k].label)>> \in graph
                /\ Cardinality(EntityTypeTriples(node)) >= 2

C2_Witness ==
    /\ pc = "built"
    /\ Len(entities) = 2
    /\ entities[1].text = "A B" /\ entities[2].text = "A_B"
    /\ entities[1].label = "GPE" /\ entities[2].label = "PER"

\* C3: a mention that repeats the normalized text and the label of an
\* earlier one adds no triple, whatever the raw texts and the scores.
C3_RepeatAddsNothingAnyRaw ==
    [][ (/\ pc = "loop" /\ i <= Len(entities)
         /\ HasTextAndLabel(entities[i])
         /\ \E k \in 1..(i - 1) :
               /\ ent_uri_of(entities[k].text) = ent_uri_of(entities[i].text)
               /\ entities[k].label = entities[i].label)
        => graph' = graph ]_vars

\* C3 amended: a mention that repeats the surface text, the label and the
\* score (when it carries one) of an earlier one adds no triple.
C3_RepeatAddsNothing ==
    [][ (/\ pc = "loop" /\ i <= Len(entities)
         /\ HasTextAndLabel(entities[i])
         /\ \E k \in 1..(i - 1) :
               /\ entities[k].text = entities[i].text
               /\ entities[k].label = entities[i].label
               /\ ScoreOf(entities[k]) = ScoreOf(entities[i]))
        => graph' = graph ]_vars

C3_Witness ==
    /\ pc = "loop" /\ i = 3
    /\ model_choice # "spaCy"
    /\ entities[1] = entities[2]

\* C4: the graph a builder returns has exactly one subject typed Document,
\* and it is Document1, whatever the mentions.
C4_OneDocument ==
    Returned =>
      {t[1] : t \in {u \in graph : u[2] = RDF_type /\ u[3] = SHE_("Document")}}
         = {SHE_("Document1")}

C4_Witness ==
    /\ pc = "built"
    /\ \E j, k \in 1..Len(entities) :
          entities[j].text = "Document1" /\ entities[k].text = "Document"

\* C5: a mention without text or without label makes the builder fail at
\* that mention, with none of its triples added and the triples of every
\* earlier mention present.
C5_FailFast ==
    [][ (/\ pc = "loop" /\ i <= Len(entities)
         /\ ~HasTextAndLabel(entities[i]))
        => /\ pc' = "failed" /\ fail_at' = "build" /\ i' = i
           /\ graph' = graph
           /\ \A k \in 1..(i - 1) : CoreTriples(entities[k]) \subseteq graph' ]_vars

C5_Witness ==
    /\ BuildFailed
    /\ i = 2
    /\ ~HasTextAndLabel(entities[2])
    /\ CoreTriples(entities[1]) \subseteq graph

\* C6: a mention with text and label never makes the builder fail; its type,
\* hasEntity and hasText triples are added, and its hasScore triple is added
\* when it carries a score.
C6_ScoreOptional ==
    \A k \in 1..Len(entities) :
       (/\ HasTextAndLabel(entities[k])
        /\ (k \in Processed \/ (BuildFailed /\ k = i)))
       => /\ ~(BuildFailed /\ k = i)
          /\ CoreTriples(entities[k]) \subseteq graph
          /\ "score" \in DOMAIN entities[k]
                => <<ent_uri_of(entities[k].text), SHE_("hasScore"),
                     LiteralFloat(entities[k].score)>> \in graph

\* C7: every node is coloured by the first entry of the priority list whose
\* key occurs in its display label (what follows the last '#'), and by a
\* colour outside the list when no key occurs.
C7_FirstMatchColor ==
    Colored =>
      \A node \in DOMAIN net_nodes :
         LET label == net_nodes[node].label
             hits  == {k \in 1..Len(PriorityList) : In(PriorityList[k][1], label)}
         IN  /\ label = split_last(node)
             /\ IF hits = {}
                THEN \A k \in 1..Len(PriorityList) :
                        net_nodes[node].color # PriorityList[k][2]
                ELSE net_nodes[node].color =
                        PriorityList[CHOOSE k \in hits : \A h \in hits : k <= h][2]

C7_Witness ==
    /\ pc = "colored"
    /\ (SHE \o "Person_Document") \in DOMAIN net_nodes
    /\ net_nodes[SHE \o "Person_Document"].color = "blue"
    /\ net_nodes[SHE \o "MiscEntity"].color = "gray"
    /\ net_nodes["Person Document"].color = "blue"
    /\ net_nodes[OWL_Class.value].color = "lightgray"

\* C8: every processed mention's node carries the type triple of the class
\* documented for its label, Entity for every unlisted label, and no other
\* entity class.
C8_DocumentedClasses ==
    /\ ~BuildFailed
    /\ \A k \in Processed :
          LET node == ent_uri_of(entities[k].text)
          IN  EntityTypeTriples(node) =
                 {<<node, RDF_type, DocumentedClass(entities[j].label)>> :
                     j \in {h \in Processed :
                               ent_uri_of(entities[h].text) = node}}

C8_Witness ==
    /\ pc = "built"
    /\ Len(entities) = 2
    /\ entities[1].label = "PER" /\ entities[2].label = "person"

\* C9: the node of a mention is its text with every whitespace character
\* replaced by an underscore, in the ontology namespace.
C9_WhitespaceNormalized ==
    \A k \in Processed :
       <<doc_uri, SHE_("hasEntity"),
         SHE_(NormalizeWhitespace(entities[k].text))>> \in graph

\* C10: when a request of the handler ends, normally or by a failure, the
\* temporary file it created no longer exists.
C10_TmpRemoved ==
    (entry = "ui" /\ pc \in {"done", "failed"}) => ~tmp_exists

====
